---------------------------- MODULE Spec2Model ----------------------------
(***************************************************************************)
(* Lead acquisition and deduplication engine: the hash-keyed lead store    *)
(* (lead_database_enhanced.py), the connectors (scrapers/*.py) and the     *)
(* orchestrator (lead_generation_orchestrator.py).                         *)
(***************************************************************************)
EXTENDS Integers, Sequences, FiniteSets, TLC

VARIABLES
    hasIdx,     \* the two UNIQUE indexes of the leads table exist
    leads,      \* committed rows of the leads table
    nextId,     \* next AUTOINCREMENT id of the leads table
    logCount,   \* number of rows of deduplication_log
    lastOp,     \* the last store call that returned: its input and result
    conn,       \* per connection: the insert_leads call running on it
    writer,     \* the connection holding the database write lock, or 0
    started,    \* insert_leads calls entered on the connections so far
    lastSearch, \* the last search_leads call of a connector: input and outcome
    dbOpen,     \* the orchestrator's self.db is a LeadDatabase (not None)
    runs,       \* generate_leads calls that returned
    report,     \* the report of the last generate_leads call, with its inputs
    call,       \* the last call of a function that keeps no state: input and result
    is_running, \* the orchestrator's self.is_running
    self_results, \* the orchestrator's self.results, in insertion order
    caller,     \* the generate_leads calls of concurrent callers: position, locals
    files       \* the names of the CSV files written

storeVars == <<hasIdx, leads, nextId, logCount, lastOp, conn, writer, started>>

orchVars == <<dbOpen, runs, report>>

runVars == <<is_running, self_results, caller>>

vars == <<storeVars, lastSearch, orchVars, call, runVars, files>>

(***************************************************************************)
(* Bounds of the model.                                                    *)
(***************************************************************************)
MaxLog == 2
\* insert_leads calls entered on the concurrent connections
MaxConcCalls == 2
\* deduplication_log rows in a run of concurrent connections
MaxConcLog == 4
\* largest limit handed to a connector's search_leads
MaxLimit == 2
\* generate_leads calls on one orchestrator
MaxRuns == 2
\* longest list handed to _deduplicate_leads on its own
MaxDedupLen == 3
\* longest list of requested source names resolved on its own
MaxNames == 3
\* most rows of a store that concurrent inserts filled before a cleanup
MaxRows == 3

(***************************************************************************)
(* Text and hashing.                                                       *)
(***************************************************************************)
\* str.lower().strip() on the strings the model uses
LowerStrip(s) ==
    CASE s = " acme "    -> "acme"
      [] s = "Acme"      -> "acme"
      [] s = "Bolt"      -> "bolt"
      [] s = "Core"      -> "core"
      [] s = "Dune"      -> "dune"
      [] s = "Echo"      -> "echo"
      [] s = "1 Main St" -> "1 main st"
      [] s = "1 MAIN ST" -> "1 main st"
      [] s = "2 Oak Ave" -> "2 oak ave"
      [] s = "X@A.COM "  -> "x@a.com"
      [] s = "X@A.COM"   -> "x@a.com"
      [] s = "Al"        -> "al"
      [] s = "555-1000 " -> "555-1000"
      [] s = "Yelp"      -> "yelp"
      [] s = " YELP "    -> "yelp"
      [] s = "Google Maps" -> "google maps"
      [] s = "Test Scraper" -> "test scraper"
      [] s = "Springfield, USA" -> "springfield, usa"
      [] s = "Test Business 1"  -> "test business 1"
      [] s = "Test Business 2"  -> "test business 2"
      [] s = "Test Business 3"  -> "test business 3"
      [] s = "Test Business 4"  -> "test business 4"
      [] s = "Test Business 5"  -> "test business 5"
      [] s = "101 Main St, Springfield, USA" -> "101 main st, springfield, usa"
      [] s = "102 Main St, Springfield, USA" -> "102 main st, springfield, usa"
      [] s = "103 Main St, Springfield, USA" -> "103 main st, springfield, usa"
      [] s = "104 Main St, Springfield, USA" -> "104 main st, springfield, usa"
      [] s = "100 Main St, Springfield, USA" -> "100 main st, springfield, usa"
      [] OTHER           -> s

\* str.strip() on the strings the model uses
Strip(s) ==
    CASE s = " acme "   -> "acme"
      [] s = "X@A.COM " -> "X@A.COM"
      [] s = "555-1000 " -> "555-1000"
      [] OTHER          -> s

\* hashlib.md5(...).hexdigest(): a non-empty digest, taken to be injective
MD5(s) == "md5:" \o s

\* LeadDatabase._generate_hash
GenerateHash(text) ==
    IF text = "" THEN "" ELSE MD5(LowerStrip(text))

(***************************************************************************)
(* Candidates (lead dictionaries handed to insert_leads).                  *)
(***************************************************************************)
Lead(n, a, e, p) == [name |-> n, address |-> a, email |-> e, phone |-> p]

Candidates ==
    { Lead("Acme",   "1 Main St", "",         ""),
      Lead(" acme ", "1 MAIN ST", "",         ""),
      Lead(" acme ", "1 MAIN ST", "x@a.com",  "555-1000"),
      Lead("Bolt",   "1 Main St", "",         ""),
      Lead("Bolt",   "2 Oak Ave", "X@A.COM ", "555-2000"),
      Lead("Core",   "2 Oak Ave", "x@a.com",  "555-1000"),
      Lead("",       "",          "x@a.com",  ""),
      Lead("",       "",          "y@b.com",  ""),
      Lead("Dune",   "1 Main St", "",         "555-1000"),
      Lead("Echo",   "2 Oak Ave", "",         "555-1000") }

\* the batches insert_leads is called with: empty, one or two candidates
Batches ==
    {<<>>} \cup {<<c>> : c \in Candidates}
           \cup {<<c, d>> : c \in Candidates, d \in Candidates}

\* the four identity hashes insert_leads computes for a candidate
Hashes(c) ==
    [name_hash    |-> GenerateHash(c.name),
     address_hash |-> GenerateHash(c.address),
     email_hash   |-> GenerateHash(c.email),
     phone_hash   |-> GenerateHash(c.phone)]

\* a row of the leads table: the id and the four hash columns
Row(id, h) ==
    [id |-> id, name_hash |-> h.name_hash, address_hash |-> h.address_hash,
     email_hash |-> h.email_hash, phone_hash |-> h.phone_hash]

(***************************************************************************)
(* LeadDatabase._check_duplicate over the rows a cursor sees.              *)
(***************************************************************************)
\* _check_duplicate without its name + address query
CheckDuplicateNoNameAddress(rows, h) ==
    \/ /\ h.email_hash # "" /\ h.phone_hash # ""
       /\ \E r \in rows : r.email_hash = h.email_hash /\ r.phone_hash = h.phone_hash
    \/ /\ h.email_hash # ""
       /\ \E r \in rows : r.email_hash = h.email_hash

\* _check_duplicate without its query on the email alone
CheckDuplicateNoEmail(rows, h) ==
    \/ \E r \in rows : r.name_hash = h.name_hash /\ r.address_hash = h.address_hash
    \/ /\ h.email_hash # "" /\ h.phone_hash # ""
       /\ \E r \in rows : r.email_hash = h.email_hash /\ r.phone_hash = h.phone_hash

CheckDuplicate(rows, h) ==
    \/ \E r \in rows : r.name_hash = h.name_hash /\ r.address_hash = h.address_hash
    \/ /\ h.email_hash # "" /\ h.phone_hash # ""
       /\ \E r \in rows : r.email_hash = h.email_hash /\ r.phone_hash = h.phone_hash
    \/ /\ h.email_hash # ""
       /\ \E r \in rows : r.email_hash = h.email_hash

\* idx_unique_name_address and idx_unique_email_phone: the INSERT of a row with
\* hashes h raises sqlite3.IntegrityError. The hash columns hold '' for an
\* empty field, never NULL, so '' takes part in the uniqueness like any text.
UniqueViolation(idx, rows, h) ==
    /\ idx
    /\ \E r \in rows :
          \/ r.name_hash = h.name_hash /\ r.address_hash = h.address_hash
          \/ r.email_hash = h.email_hash /\ r.phone_hash = h.phone_hash

(***************************************************************************)
(* insert_leads, one candidate: the body of the for loop.                  *)
(*   st = [rows, next, dups, ins, dec]                                     *)
(***************************************************************************)
\* a field value that is not a str: the int 5551000, written as a token.
\* _generate_hash calls text.lower() on it, which raises AttributeError
NonText == {"int:5551000"}

\* the loop body whose IntegrityError handler does not count the candidate
InsertOneIntegrityUncounted(idx, st, c) ==
    IF {c.name, c.address, c.email, c.phone} \cap NonText # {}
    THEN [st EXCEPT !.dec = Append(@, "error")]
    ELSE
    LET h == Hashes(c) IN
    IF CheckDuplicate(st.rows, h)
    THEN [st EXCEPT !.dups = @ + 1, !.dec = Append(@, "dup")]
    ELSE IF UniqueViolation(idx, st.rows, h)
    THEN [st EXCEPT !.dec = Append(@, "integrity")]
    ELSE [st EXCEPT !.rows = @ \cup {Row(st.next, h)},
                    !.next = @ + 1,
                    !.ins  = @ + 1,
                    !.dec  = Append(@, "ins")]

\* the decisions: "dup" (is_duplicate), "integrity" (the INSERT raises
\* sqlite3.IntegrityError), "ins", and "error" (any other exception of the
\* body: logged by the generic handler, the candidate is skipped)
InsertOne(idx, st, c) ==
    IF {c.name, c.address, c.email, c.phone} \cap NonText # {}
    THEN [st EXCEPT !.dec = Append(@, "error")]
    ELSE
    LET h == Hashes(c) IN
    IF CheckDuplicate(st.rows, h)
    THEN [st EXCEPT !.dups = @ + 1, !.dec = Append(@, "dup")]
    ELSE IF UniqueViolation(idx, st.rows, h)
    THEN [st EXCEPT !.dups = @ + 1, !.dec = Append(@, "integrity")]
    ELSE [st EXCEPT !.rows = @ \cup {Row(st.next, h)},
                    !.next = @ + 1,
                    !.ins  = @ + 1,
                    !.dec  = Append(@, "ins")]

RECURSIVE InsertLoop(_, _, _)
InsertLoop(idx, st, batch) ==
    IF batch = <<>> THEN st
    ELSE InsertLoop(idx, InsertOne(idx, st, Head(batch)), Tail(batch))

\* the whole call on one connection with no other writer
InsertRun(idx, rows, next, batch) ==
    InsertLoop(idx, [rows |-> rows, next |-> next, dups |-> 0, ins |-> 0,
                     dec |-> <<>>], batch)

(***************************************************************************)
(* cleanup_duplicates.                                                     *)
(***************************************************************************)
NameAddressGroups(rows) ==
    { <<r.name_hash, r.address_hash>> : r \in
        { r \in rows : \E q \in rows : /\ q.id # r.id
                                       /\ q.name_hash = r.name_hash
                                       /\ q.address_hash = r.address_hash } }

EmailPhoneGroups(rows) ==
    { <<r.email_hash, r.phone_hash>> : r \in
        { r \in rows : /\ r.email_hash # "" /\ r.phone_hash # ""
                       /\ \E q \in rows : /\ q.id # r.id
                                          /\ q.email_hash = r.email_hash
                                          /\ q.phone_hash = r.phone_hash } }

\* the DELETE by name + address keeping MAX(id) instead of MIN(id)
DeleteNameAddressKeepNewest(rows, groups) ==
    { r \in rows :
        ~ /\ <<r.name_hash, r.address_hash>> \in groups
          /\ \E q \in rows : /\ q.name_hash = r.name_hash
                             /\ q.address_hash = r.address_hash
                             /\ q.id > r.id }

\* DELETE ... WHERE name_hash = ? AND address_hash = ? AND id NOT IN (SELECT MIN(id) ...)
\* for every group found
DeleteNameAddress(rows, groups) ==
    { r \in rows :
        ~ /\ <<r.name_hash, r.address_hash>> \in groups
          /\ \E q \in rows : /\ q.name_hash = r.name_hash
                             /\ q.address_hash = r.address_hash
                             /\ q.id < r.id }

DeleteEmailPhone(rows, groups) ==
    { r \in rows :
        ~ /\ <<r.email_hash, r.phone_hash>> \in groups
          /\ \E q \in rows : /\ q.email_hash = r.email_hash
                             /\ q.phone_hash = r.phone_hash
                             /\ q.id < r.id }

\* cleanup_duplicates whose DELETEs are counted but never committed
CleanupRunNotCommitted(rows) ==
    LET na   == NameAddressGroups(rows)
        ep   == EmailPhoneGroups(rows)
        r1   == DeleteNameAddress(rows, na)
        r2   == DeleteEmailPhone(r1, ep)
    IN [rows    |-> rows,
        found   |-> Cardinality(na) + Cardinality(ep),
        removed |-> (Cardinality(rows) - Cardinality(r1))
                    + (Cardinality(r1) - Cardinality(r2))]

CleanupRun(rows) ==
    LET na   == NameAddressGroups(rows)
        ep   == EmailPhoneGroups(rows)
        r1   == DeleteNameAddress(rows, na)
        r2   == DeleteEmailPhone(r1, ep)
    IN [rows    |-> r2,
        found   |-> Cardinality(na) + Cardinality(ep),
        removed |-> (Cardinality(rows) - Cardinality(r1))
                    + (Cardinality(r1) - Cardinality(r2))]

(***************************************************************************)
(* Connections: every insert_leads call opens its own sqlite3 connection.  *)
(***************************************************************************)
Conns == {1, 2}

IdleConn ==
    [pc |-> "idle", batch |-> <<>>, i |-> 0, dups |-> 0, ins |-> 0,
     dec |-> <<>>, pend |-> {}]

\* the threads that call generate_leads on one orchestrator
Callers == {1, 2}

IdleCaller == [pc |-> "idle"]

\* the entry self.results[source] = result, tagged with the call that ran the
\* connector (0: the only call)
ResultEntry(source, run, result) ==
    [source |-> source, run |-> run, leads |-> result.leads,
     status |-> result.status, error |-> result.error]

(***************************************************************************)
(* The store, one call at a time.                                          *)
(***************************************************************************)
Init ==
    /\ hasIdx \in BOOLEAN
    /\ leads = {}
    /\ nextId = 1
    /\ logCount = 0
    /\ lastOp = [op |-> "none"]
    /\ conn = [p \in Conns |-> IdleConn]
    /\ writer = 0
    /\ started = 0
    /\ lastSearch = [op |-> "none"]
    /\ dbOpen = TRUE
    /\ runs = 0
    /\ report = [status |-> "none"]
    /\ call = [op |-> "none"]
    /\ is_running = FALSE
    /\ self_results = <<>>
    /\ caller = [c \in Callers |-> IdleCaller]
    /\ files = {}

\* LeadDatabase.insert_leads
InsertLeads(batch) ==
    /\ logCount < MaxLog
    /\ IF batch = <<>>
       THEN /\ lastOp' = [op |-> "insert", logPre |-> logCount, batch |-> batch, pre |-> leads,
                          total |-> 0, dups |-> 0, ins |-> 0, dec |-> <<>>]
            /\ UNCHANGED <<hasIdx, leads, nextId, logCount, conn, writer, started, lastSearch, orchVars, call, runVars, files>>
       ELSE LET st == InsertRun(hasIdx, leads, nextId, batch) IN
            /\ leads' = st.rows
            /\ nextId' = st.next
            /\ logCount' = logCount + 1
            /\ lastOp' = [op |-> "insert", logPre |-> logCount, batch |-> batch, pre |-> leads,
                          total |-> Len(batch), dups |-> st.dups,
                          ins |-> st.ins, dec |-> st.dec]
            /\ UNCHANGED <<hasIdx, conn, writer, started, lastSearch, orchVars, call, runVars, files>>

\* the rows cleanup_duplicates leaves and the counts it returns
CleanupCall(bound) ==
    /\ logCount < bound
    /\ LET res == CleanupRun(leads) IN
       /\ leads' = res.rows
       /\ logCount' = logCount + 1
       /\ lastOp' = [op |-> "cleanup", pre |-> leads, found |-> res.found,
                     removed |-> res.removed,
                     after |-> lastOp.op,
                     prevRemoved |-> IF lastOp.op = "cleanup"
                                     THEN lastOp.removed ELSE 0]
    /\ UNCHANGED <<hasIdx, nextId, conn, writer, started, lastSearch, orchVars, call, runVars, files>>

\* LeadDatabase.cleanup_duplicates
CleanupDuplicates == CleanupCall(MaxLog)

Next ==
    \/ \E batch \in Batches : InsertLeads(batch)
    \/ CleanupDuplicates

Spec == Init /\ [][Next]_vars

(***************************************************************************)
(* insert_leads on lead dictionaries as a caller may build them: a field    *)
(* can hold a value that is not a str.                                      *)
(***************************************************************************)
AccountCandidates ==
    { Lead("Acme", "1 Main St", "",        ""),
      Lead("Acme", "1 Main St", "",        "int:5551000"),
      Lead("Bolt", "2 Oak Ave", "x@a.com", "555-1000"),
      Lead("Core", "2 Oak Ave", "x@a.com", "int:5551000") }

AccountBatches ==
    {<<>>} \cup {<<c>> : c \in AccountCandidates}
           \cup {<<c, d>> : c \in AccountCandidates, d \in AccountCandidates}

NextAccount == \E batch \in AccountBatches : InsertLeads(batch)

SpecAccount == Init /\ [][NextAccount]_vars

(***************************************************************************)
(* insert_leads calls that raise: a statement outside the per-candidate     *)
(* handlers fails (the INSERT into deduplication_log, or the commit), the   *)
(* with block of the connection is left by the exception, and the outer     *)
(* handler logs it and raises it again.                                     *)
(***************************************************************************)
AtomicCandidates ==
    { Lead("Acme", "1 Main St", "",        ""),
      Lead("Bolt", "2 Oak Ave", "x@a.com", "555-1000"),
      Lead("Core", "2 Oak Ave", "X@A.COM", "555-2000") }

AtomicBatches ==
    {<<>>} \cup {<<c>> : c \in AtomicCandidates}
           \cup {<<c, d>> : c \in AtomicCandidates, d \in AtomicCandidates}

\* where the call fails: the log INSERT raises, or conn.commit() raises
FailurePoints == {"log", "commit"}

\* a connection whose context manager commits whatever ends the block
ConnectionExitCommits(committed, working, raised) == working

\* sqlite3.Connection as a context manager: the transaction is committed when
\* the block ends normally and rolled back when an exception leaves it
ConnectionExit(committed, working, raised) ==
    IF raised THEN committed ELSE working

\* LeadDatabase.insert_leads when it raises
InsertLeadsRaises(batch, at) ==
    /\ logCount < MaxLog
    /\ batch # <<>>
    /\ LET st      == InsertRun(hasIdx, leads, nextId, batch)
           working == [rows |-> st.rows, next |-> st.next,
                       log  |-> IF at = "commit" THEN logCount + 1 ELSE logCount]
           final   == ConnectionExit([rows |-> leads, next |-> nextId,
                                      log |-> logCount], working, TRUE)
       IN /\ leads' = final.rows
          /\ nextId' = final.next
          /\ logCount' = final.log
          /\ lastOp' = [op |-> "insert_raised", logPre |-> logCount,
                        batch |-> batch, pre |-> leads, at |-> at,
                        pending |-> st.ins]
    /\ UNCHANGED <<hasIdx, conn, writer, started, lastSearch, orchVars, call,
                   runVars, files>>

NextAtomic ==
    \/ \E batch \in AtomicBatches : InsertLeads(batch)
    \/ \E batch \in AtomicBatches : \E at \in FailurePoints :
           InsertLeadsRaises(batch, at)

SpecAtomic == Init /\ [][NextAtomic]_vars

(***************************************************************************)
(* insert_leads calls on concurrent connections. The SELECTs of             *)
(* _check_duplicate run outside a transaction until the connection's first  *)
(* INSERT, which takes the database write lock (held until commit); a       *)
(* connection sees the committed rows and its own uncommitted ones.         *)
(***************************************************************************)
ConcCandidates ==
    { Lead("Acme",   "1 Main St", "",         ""),
      Lead(" acme ", "1 MAIN ST", "x@a.com",  "555-1000"),
      Lead("Bolt",   "2 Oak Ave", "X@A.COM ", "555-2000") }

ConcBatches ==
    {<<c>> : c \in ConcCandidates}
        \cup {<<c, d>> : c \in ConcCandidates, d \in ConcCandidates}

Visible(p) == leads \cup conn[p].pend

\* after candidate i: the next candidate, or the log entry and the commit
Advance(c) ==
    IF c.i < Len(c.batch)
    THEN [c EXCEPT !.pc = "check", !.i = @ + 1]
    ELSE [c EXCEPT !.pc = "log"]

\* insert_leads is entered with a non-empty batch
ConnBegin(p, batch) ==
    /\ conn[p].pc = "idle"
    /\ started < MaxConcCalls
    /\ started' = started + 1
    /\ conn' = [conn EXCEPT ![p] =
                   [IdleConn EXCEPT !.pc = "check", !.batch = batch, !.i = 1]]
    /\ UNCHANGED <<hasIdx, leads, nextId, logCount, lastOp, writer, lastSearch, orchVars, call, runVars, files>>

\* _check_duplicate for candidate i
ConnCheck(p) ==
    /\ conn[p].pc = "check"
    /\ LET c == conn[p] IN
       IF CheckDuplicate(Visible(p), Hashes(c.batch[c.i]))
       THEN conn' = [conn EXCEPT ![p] =
                        Advance([c EXCEPT !.dups = @ + 1,
                                          !.dec = Append(@, "dup")])]
       ELSE conn' = [conn EXCEPT ![p].pc = "insert"]
    /\ UNCHANGED <<hasIdx, leads, nextId, logCount, lastOp, writer, started, lastSearch, orchVars, call, runVars, files>>

\* INSERT INTO leads for candidate i: waits for the write lock
ConnInsert(p) ==
    /\ conn[p].pc = "insert"
    /\ writer \in {0, p}
    /\ writer' = p
    /\ LET c == conn[p]
           h == Hashes(c.batch[c.i])
       IN IF UniqueViolation(hasIdx, Visible(p), h)
          THEN /\ conn' = [conn EXCEPT ![p] =
                              Advance([c EXCEPT !.dups = @ + 1,
                                                !.dec = Append(@, "integrity")])]
               /\ UNCHANGED nextId
          ELSE /\ conn' = [conn EXCEPT ![p] =
                              Advance([c EXCEPT !.ins = @ + 1,
                                                !.dec = Append(@, "ins"),
                                                !.pend = @ \cup {Row(nextId, h)}])]
               /\ nextId' = nextId + 1
    /\ UNCHANGED <<hasIdx, leads, logCount, lastOp, started, lastSearch, orchVars, call, runVars, files>>

\* INSERT INTO deduplication_log, conn.commit() and return
ConnCommit(p) ==
    /\ conn[p].pc = "log"
    /\ writer \in {0, p}
    /\ writer' = 0
    /\ leads' = leads \cup conn[p].pend
    /\ logCount' = logCount + 1
    /\ lastOp' = [op |-> "insert", logPre |-> logCount, batch |-> conn[p].batch, pre |-> leads,
                  total |-> Len(conn[p].batch), dups |-> conn[p].dups,
                  ins |-> conn[p].ins, dec |-> conn[p].dec]
    /\ conn' = [conn EXCEPT ![p] = IdleConn]
    /\ UNCHANGED <<hasIdx, nextId, started, lastSearch, orchVars, call, runVars, files>>

\* cleanup_duplicates on its own connection, once it gets the write lock
ConcCleanupDuplicates ==
    /\ writer = 0
    /\ CleanupCall(MaxConcLog)

NextConc ==
    \/ \E p \in Conns : \E batch \in ConcBatches : ConnBegin(p, batch)
    \/ \E p \in Conns : ConnCheck(p)
    \/ \E p \in Conns : ConnInsert(p)
    \/ \E p \in Conns : ConnCommit(p)
    \/ ConcCleanupDuplicates

SpecConc == Init /\ [][NextConc]_vars

AllIdle == \A p \in Conns : conn[p].pc = "idle"

(***************************************************************************)
(* Connectors: search_leads of each scraper. A page is what the remote     *)
(* source serves during one call: the outcome of _make_request (after its  *)
(* retries), the listings of the first page, and the next page if any.     *)
(* A listing holds the text the selectors extract from one element.        *)
(***************************************************************************)
ReqCity == "Springfield"
ReqCountry == "USA"
ReqNiche == "bakery"

Connectors == {"google_maps", "yelp", "yellowpages", "linkedin", "test"}

Listings ==
    { Lead("Acme",   "1 Main St", "",         "555-1000"),
      Lead(" acme ", "1 MAIN ST", "X@A.COM ", "555-1000"),
      Lead("Bolt",   "2 Oak Ave", "",         ""),
      Lead("Al",     "2 Oak Ave", "",         "") }

ListingSeqs ==
    {<<>>} \cup {<<c>> : c \in Listings}
           \cup {<<c, d>> : c \in Listings, d \in Listings}

Pages ==
    { [fetch |-> "error", first |-> <<>>, nextFetch |-> "none", more |-> <<>>] }
    \cup { [fetch |-> "ok", first |-> f, nextFetch |-> n, more |-> <<>>] :
              f \in ListingSeqs, n \in {"none", "error"} }
    \cup { [fetch |-> "ok", first |-> f, nextFetch |-> "ok", more |-> m] :
              f \in ListingSeqs, m \in ListingSeqs }

\* BaseScraper._clean_text and _extract_email on the strings the model uses
CleanText(s) == Strip(s)

\* a validation that does not look at the name
ValidateLeadNoName(l) ==
    /\ l.address # "" /\ Len(Strip(l.address)) > 5
    /\ ReqCity # ""    /\ Len(Strip(ReqCity)) > 1
    /\ ReqCountry # "" /\ Len(Strip(ReqCountry)) > 1
    /\ ReqNiche # ""   /\ Len(Strip(ReqNiche)) > 2

\* BaseScraper._validate_lead
ValidateLead(l) ==
    /\ l.name # ""    /\ Len(Strip(l.name)) > 2
    /\ l.address # "" /\ Len(Strip(l.address)) > 5
    /\ ReqCity # ""    /\ Len(Strip(ReqCity)) > 1
    /\ ReqCountry # "" /\ Len(Strip(ReqCountry)) > 1
    /\ ReqNiche # ""   /\ Len(Strip(ReqNiche)) > 2

\* _parse_business_listing / _parse_json_ld_business: no lead without a name,
\* the address falls back to "city, country", Yelp and the HTML elements of
\* Google Maps never yield an email
ParseListing(connector, raw) ==
    IF raw.name = "" THEN <<>>
    ELSE << Lead(CleanText(raw.name),
                 IF CleanText(raw.address) = ""
                 THEN ReqCity \o ", " \o ReqCountry
                 ELSE CleanText(raw.address),
                 IF connector \in {"yelp", "google_maps_html"}
                 THEN "" ELSE CleanText(raw.email),
                 raw.phone) >>

\* _extract_business_listings: the parsed listings that pass validation
RECURSIVE ExtractListings(_, _)
ExtractListings(connector, raws) ==
    IF raws = <<>> THEN <<>>
    ELSE LET parsed == ParseListing(connector, Head(raws)) IN
         (IF parsed # <<>> /\ ValidateLead(parsed[1]) THEN parsed ELSE <<>>)
             \o ExtractListings(connector, Tail(raws))

\* the Python slice seq[:n]
SliceTo(seq, n) ==
    IF n >= 0
    THEN SubSeq(seq, 1, IF n < Len(seq) THEN n ELSE Len(seq))
    ELSE SubSeq(seq, 1, IF Len(seq) + n > 0 THEN Len(seq) + n ELSE 0)

\* _scrape_additional_pages: its own failures are logged and yield no lead
ScrapeAdditionalPages(connector, page, remaining) ==
    IF page.nextFetch = "ok" /\ remaining > 0
    THEN SliceTo(ExtractListings(connector, page.more), remaining)
    ELSE <<>>

Returned(ls) == [raised |-> FALSE, leads |-> ls]
Raised == [raised |-> TRUE, leads |-> <<>>]

\* YelpScraper.search_leads without the final leads[:limit]
YelpSearchLeadsUnlimited(page, limit) ==
    IF page.fetch # "ok" THEN Returned(<<>>)
    ELSE LET first == ExtractListings("yelp", page.first) IN
         Returned(IF Len(first) < limit
                  THEN first \o ScrapeAdditionalPages("yelp", page, limit - Len(first))
                  ELSE first)

\* YelpScraper.search_leads: every exception is logged and the leads gathered
\* so far are returned
YelpSearchLeads(page, limit) ==
    IF page.fetch # "ok" THEN Returned(<<>>)
    ELSE LET first == ExtractListings("yelp", page.first)
             all   == IF Len(first) < limit
                      THEN first \o ScrapeAdditionalPages("yelp", page, limit - Len(first))
                      ELSE first
         IN Returned(SliceTo(all, limit))

\* YellowPagesScraper.search_leads
YellowPagesSearchLeads(page, limit) ==
    IF page.fetch # "ok" THEN Returned(<<>>)
    ELSE LET first == ExtractListings("yellowpages", page.first)
             all   == IF Len(first) < limit
                      THEN first \o ScrapeAdditionalPages("yellowpages", page,
                                                          limit - Len(first))
                      ELSE first
         IN Returned(SliceTo(all, limit))

\* GoogleMapsScraper.search_leads: JSON-LD leads (page.first), then the leads
\* of the HTML elements of the same page (page.more, never with an email)
GoogleMapsSearchLeads(page, limit) ==
    IF page.fetch # "ok" THEN Returned(<<>>)
    ELSE Returned(SliceTo(ExtractListings("google_maps", page.first)
                            \o ExtractListings("google_maps_html", page.more), limit))

\* the module-level name logger is used but never bound in these modules
LoggerUnbound(connector) == connector \in {"test", "linkedin"}

\* the leads TestScraper builds: range(min(5, limit))
NumTestLeads == 5

NumStr(i) ==
    CASE i = 1 -> "1" [] i = 2 -> "2" [] i = 3 -> "3" [] i = 4 -> "4"
      [] i = 5 -> "5" [] OTHER -> "0"

TestLead(i) ==
    Lead("Test Business " \o NumStr(i),
         "10" \o NumStr(i - 1) \o " Main St, " \o ReqCity \o ", " \o ReqCountry,
         "contact" \o NumStr(i) \o "@testbusiness" \o NumStr(i) \o ".com",
         "+1-555-100" \o NumStr(i - 1))

\* TestScraper.search_leads: its first statement is logger.info(...)
TestSearchLeads(limit) ==
    IF LoggerUnbound("test") THEN Raised
    ELSE Returned([i \in 1..(IF limit < NumTestLeads THEN limit ELSE NumTestLeads)
                      |-> TestLead(i)])

\* LinkedInScraper.search_leads: logger.info(...) raises inside the try, and
\* the handler's logger.error(...) raises again, outside any handler
LinkedInSearchLeads(page, limit) ==
    IF LoggerUnbound("linkedin") THEN Raised
    ELSE IF page.fetch # "ok" THEN Returned(<<>>)
    ELSE Returned(ExtractListings("linkedin", SliceTo(page.first, limit)))

SearchLeads(connector, page, limit) ==
    CASE connector = "google_maps" -> GoogleMapsSearchLeads(page, limit)
      [] connector = "yelp"        -> YelpSearchLeads(page, limit)
      [] connector = "yellowpages" -> YellowPagesSearchLeads(page, limit)
      [] connector = "linkedin"    -> LinkedInSearchLeads(page, limit)
      [] connector = "test"        -> TestSearchLeads(limit)

\* one search_leads call; connectors keep no state between calls, so one
\* call per behaviour covers them all
SearchCall(connector, page, limit) ==
    /\ lastSearch.op = "none"
    /\ LET res == SearchLeads(connector, page, limit) IN
       lastSearch' = [op |-> "search", connector |-> connector, page |-> page,
                      limit |-> limit, raised |-> res.raised, leads |-> res.leads]
    /\ UNCHANGED <<storeVars, orchVars, call, runVars, files>>

NextConn ==
    \E connector \in Connectors : \E page \in Pages : \E limit \in 1..MaxLimit :
        SearchCall(connector, page, limit)

SpecConn == Init /\ [][NextConn]_vars

(***************************************************************************)
(* LeadGenerationOrchestrator.generate_leads.                              *)
(***************************************************************************)
\* the keys of self.scrapers, in insertion order
Scrapers == <<"google_maps", "yelp", "yellowpages", "test">>

InSeq(x, seq) == \E i \in 1..Len(seq) : seq[i] = x

\* the argument sources: None, or a list of names
NoRequest == [given |-> FALSE, names |-> <<>>]
Request(names) == [given |-> TRUE, names |-> names]

\* the key a requested name is mapped to
MapSourceName(s) ==
    LET s_lower == LowerStrip(s) IN
    CASE s_lower \in {"google maps", "google_maps", "google"} -> "google_maps"
      [] s_lower \in {"yelp"} -> "yelp"
      [] s_lower \in {"yellow pages", "yellowpages", "yellow_pages"} -> "yellowpages"
      [] s_lower \in {"test", "test scraper", "test_scraper"} -> "test"
      [] OTHER -> s

RECURSIVE MapSources(_, _)
MapSources(names, mapped) ==
    IF names = <<>> THEN mapped
    ELSE LET key == MapSourceName(Head(names)) IN
         MapSources(Tail(names),
                    IF InSeq(key, Scrapers) /\ ~InSeq(key, mapped)
                    THEN Append(mapped, key) ELSE mapped)

\* the mapped names, with no fallback when none is left
ResolveSourcesNoFallback(request) ==
    MapSources(IF request.given THEN request.names ELSE Scrapers, <<>>)

\* the sources a request runs: the mapped names, or every scraper when none
\* is left
ResolveSources(request) ==
    LET mapped == MapSources(IF request.given THEN request.names ELSE Scrapers,
                             <<>>)
    IN IF mapped = <<>> THEN Scrapers ELSE mapped

\* limit_per_source = max(1, limit // len(sources))
LimitPerSource(limit, sources) ==
    IF limit \div Len(sources) > 1 THEN limit \div Len(sources) ELSE 1

\* _run_scraper: the result recorded for one source
RunScraper(source, page, limit) ==
    LET res == SearchLeads(source, page, limit) IN
    IF res.raised
    THEN [leads |-> <<>>, status |-> "error",
          error |-> "name 'logger' is not defined"]
    ELSE [leads |-> res.leads, status |-> "success", error |-> ""]

\* the orders in which as_completed can yield the futures of the sources
CompletionOrders(sources) ==
    LET n == Len(sources)
        S == {sources[i] : i \in 1..n}
    IN { o \in [1..n -> S] : \A i \in 1..n : \A j \in 1..n : i # j => o[i] # o[j] }

\* all_leads: the leads of the successful results, in the order of self.results
RECURSIVE CombineResults(_, _)
CombineResults(order, results) ==
    IF order = <<>> THEN <<>>
    ELSE (IF results[Head(order)].status = "success"
          THEN results[Head(order)].leads ELSE <<>>)
             \o CombineResults(Tail(order), results)

\* identifier_parts without the phone-only part
IdentifiersNoPhone(lead) ==
    (IF lead.name # "" /\ lead.address # ""
     THEN {LowerStrip(lead.name) \o "|" \o LowerStrip(lead.address)} ELSE {})
    \cup
    (IF lead.email # "" /\ lead.phone # ""
     THEN {LowerStrip(lead.email) \o "|" \o Strip(lead.phone)}
     ELSE IF lead.email # "" THEN {"email|" \o LowerStrip(lead.email)}
     ELSE {})

\* the identifier_parts of one lead
Identifiers(lead) ==
    (IF lead.name # "" /\ lead.address # ""
     THEN {LowerStrip(lead.name) \o "|" \o LowerStrip(lead.address)} ELSE {})
    \cup
    (IF lead.email # "" /\ lead.phone # ""
     THEN {LowerStrip(lead.email) \o "|" \o Strip(lead.phone)}
     ELSE IF lead.email # "" THEN {"email|" \o LowerStrip(lead.email)}
     ELSE IF lead.phone # "" THEN {"phone|" \o Strip(lead.phone)}
     ELSE {})

\* the loop that also adds the identifiers of a rejected lead to seen
RECURSIVE DeduplicateLoopSeenAll(_, _, _)
DeduplicateLoopSeenAll(ls, seen, deduplicated) ==
    IF ls = <<>> THEN [seen |-> seen, deduplicated |-> deduplicated]
    ELSE IF Identifiers(Head(ls)) \cap seen = {}
         THEN DeduplicateLoopSeenAll(Tail(ls), seen \cup Identifiers(Head(ls)),
                                     Append(deduplicated, Head(ls)))
         ELSE DeduplicateLoopSeenAll(Tail(ls), seen \cup Identifiers(Head(ls)),
                                     deduplicated)

\* the loop of _deduplicate_leads over the leads not yet visited: the set seen
\* and the list deduplicated when it ends
RECURSIVE DeduplicateLoop(_, _, _)
DeduplicateLoop(ls, seen, deduplicated) ==
    IF ls = <<>> THEN [seen |-> seen, deduplicated |-> deduplicated]
    ELSE IF Identifiers(Head(ls)) \cap seen = {}
         THEN DeduplicateLoop(Tail(ls), seen \cup Identifiers(Head(ls)),
                              Append(deduplicated, Head(ls)))
         ELSE DeduplicateLoop(Tail(ls), seen, deduplicated)

\* _deduplicate_leads: the first lead of every identity survives
DeduplicateLeads(ls) == DeduplicateLoop(ls, {}, <<>>).deduplicated

\* the requests, limits and connector responses of the runs explored
Requests ==
    { Request(<<"test">>),
      Request(<<"Yelp", "google">>),
      Request(<<"Google Maps", "Test Scraper">>),
      Request(<<" YELP ", "linkedin", "yelp">>) }

OrchLimits == {1, 10}

ErrorPage == [fetch |-> "error", first |-> <<>>, nextFetch |-> "none", more |-> <<>>]

OrchPages ==
    { ErrorPage,
      [fetch |-> "ok",
       first |-> <<Lead("Acme", "1 Main St", "", "555-1000"),
                   Lead("Bolt", "2 Oak Ave", "", "555-2000")>>,
       nextFetch |-> "none", more |-> <<>>],
      [fetch |-> "ok",
       first |-> <<Lead(" acme ", "1 MAIN ST", "X@A.COM ", "555-2000"),
                   Lead("Al", "2 Oak Ave", "", "")>>,
       nextFetch |-> "ok", more |-> <<Lead("Acme", "1 Main St", "", "555-1000")>>] }

\* the responses the connectors of a run meet; the test connector fetches
\* nothing
PageAssignments(sources) ==
    LET S == {sources[i] : i \in 1..Len(sources)} IN
    { pg \in [S -> OrchPages] : "test" \in S => pg["test"] = ErrorPage }

\* a connector failed: it raised, or its request for the results page failed
ConnectorFailed(source, page, limit) ==
    \/ SearchLeads(source, page, limit).raised
    \/ source # "test" /\ page.fetch # "ok"

\* what a report keeps of the run before it
PreviousRun(r) ==
    IF r.status = "none" THEN [status |-> "none"]
    ELSE [status |-> r.status, request |-> r.request, limit |-> r.limit,
          pre |-> r.pre, total_found |-> r.total_found,
          successfully_inserted |-> r.successfully_inserted]

\* the orchestrator is built on a store that opened, or self.db is None (and
\* then no index was created)
InitOrch ==
    /\ hasIdx \in BOOLEAN
    /\ leads = {}
    /\ nextId = 1
    /\ logCount = 0
    /\ lastOp = [op |-> "none"]
    /\ conn = [p \in Conns |-> IdleConn]
    /\ writer = 0
    /\ started = 0
    /\ lastSearch = [op |-> "none"]
    /\ dbOpen \in (IF hasIdx THEN {TRUE} ELSE BOOLEAN)
    /\ runs = 0
    /\ report = [status |-> "none"]
    /\ call = [op |-> "none"]
    /\ is_running = FALSE
    /\ self_results = <<>>
    /\ caller = [c \in Callers |-> IdleCaller]
    /\ files = {}

\* one generate_leads call, from the source mapping to the report; storeFails:
\* insert_leads raises after connecting and its transaction is rolled back
GenerateLeads(request, limit, deduplicate, pages, order, storeFails) ==
    /\ runs < MaxRuns
    /\ LET sources == ResolveSources(request)
           lps     == LimitPerSource(limit, sources)
           results == [s \in DOMAIN pages |-> RunScraper(s, pages[s], lps)]
           all_leads == CombineResults(order, results)
           deduplicated_leads == IF deduplicate THEN DeduplicateLeads(all_leads)
                                 ELSE all_leads
           failed  == {s \in DOMAIN pages : ConnectorFailed(s, pages[s], lps)}
           gave    == {s \in DOMAIN pages : results[s].leads # <<>>}
           inputs  == [request |-> request, limit |-> limit, sources |-> sources,
                       failed |-> failed, gave |-> gave, all |-> all_leads,
                       survivors |-> deduplicated_leads, pre |-> leads,
                       dbOpen |-> dbOpen, storeFails |-> storeFails,
                       pages |-> pages, deduplicate |-> deduplicate,
                       prev |-> PreviousRun(report)]
           st      == InsertRun(hasIdx, leads, nextId, deduplicated_leads)
           stored  == dbOpen /\ deduplicated_leads # <<>> /\ ~storeFails
       IN
       /\ storeFails => dbOpen /\ deduplicated_leads # <<>>
       /\ IF storeFails
          THEN report' = inputs @@
                         [status |-> "error", error |-> "store",
                          total_found |-> 0, duplicates_removed |-> 0,
                          successfully_inserted |-> 0, errors |-> {},
                          post |-> leads]
          ELSE report' = inputs @@
                         [status |-> "completed", error |-> "",
                          total_found |-> Len(all_leads),
                          duplicates_removed |->
                              Len(all_leads) - Len(deduplicated_leads),
                          successfully_inserted |-> IF stored THEN st.ins ELSE 0,
                          errors |-> {s \in DOMAIN pages : results[s].error # ""},
                          post |-> IF stored THEN st.rows ELSE leads]
       /\ IF stored
          THEN /\ leads' = st.rows
               /\ nextId' = st.next
               /\ logCount' = logCount + 1
               /\ lastOp' = [op |-> "insert", logPre |-> logCount, batch |-> deduplicated_leads,
                             pre |-> leads, total |-> Len(deduplicated_leads),
                             dups |-> st.dups, ins |-> st.ins, dec |-> st.dec]
          ELSE UNCHANGED <<leads, nextId, logCount, lastOp>>
    /\ runs' = runs + 1
    /\ is_running' = FALSE
    /\ self_results' = [i \in 1..Len(order) |->
                     ResultEntry(order[i], 0,
                                 RunScraper(order[i], pages[order[i]],
                                            LimitPerSource(limit, ResolveSources(request))))]
    /\ UNCHANGED <<hasIdx, conn, writer, started, lastSearch, dbOpen, call, caller, files>>

NextOrch ==
    \E request \in Requests : \E limit \in OrchLimits :
    \E deduplicate \in BOOLEAN : \E storeFails \in BOOLEAN :
    \E pages \in PageAssignments(ResolveSources(request)) :
    \E order \in CompletionOrders(ResolveSources(request)) :
        GenerateLeads(request, limit, deduplicate, pages, order, storeFails)

SpecOrch == InitOrch /\ [][NextOrch]_vars

(***************************************************************************)
(* _deduplicate_leads on its own.                                          *)
(***************************************************************************)
DedupCandidates ==
    { Lead("Acme", "1 Main St", "",        "555-1000"),
      Lead("Bolt", "2 Oak Ave", "",        "555-1000 "),
      Lead("Core", "2 Oak Ave", "x@a.com", "555-1000"),
      Lead("Dune", "1 Main St", "y@b.com", "555-1000"),
      Lead("Acme", "1 Main St", "",        "555-2000") }

DedupBatches ==
    UNION { [1..n -> DedupCandidates] : n \in 0..MaxDedupLen }

\* one _deduplicate_leads call; the function keeps nothing between calls
DeduplicateCall(ls) ==
    /\ call.op = "none"
    /\ call' = [op |-> "dedup", input |-> ls, output |-> DeduplicateLeads(ls),
                seen |-> DeduplicateLoop(ls, {}, <<>>).seen]
    /\ UNCHANGED <<storeVars, lastSearch, orchVars, runVars, files>>

NextDedup == \E ls \in DedupBatches : DeduplicateCall(ls)

SpecDedup == Init /\ [][NextDedup]_vars

(***************************************************************************)
(* The tail of generate_leads on its own: the combined leads of the         *)
(* connectors are deduplicated and the survivors handed to insert_leads.    *)
(***************************************************************************)
MaxPipeLen == 3

PipeCandidates ==
    { Lead(" acme ", "1 MAIN ST", "x@a.com",  "555-1000"),
      Lead("Bolt",   "2 Oak Ave", "X@A.COM ", "555-2000"),
      Lead("Acme",   "1 Main St", "",         ""),
      Lead("Bolt",   "1 Main St", "",         "") }

PipeBatches == UNION { [1..n -> PipeCandidates] : n \in 0..MaxPipeLen }

\* generate_leads from "Combine all results" to the report, with the store
\* open and insert_leads returning
StoreSurvivors(all_leads, deduplicate) ==
    /\ call.op = "none"
    /\ dbOpen
    /\ LET deduplicated_leads == IF deduplicate THEN DeduplicateLeads(all_leads)
                                 ELSE all_leads
           st == InsertRun(hasIdx, leads, nextId, deduplicated_leads)
       IN /\ call' = [op |-> "store", all |-> all_leads,
                      deduplicate |-> deduplicate,
                      survivors |-> deduplicated_leads, pre |-> leads,
                      duplicates_found |-> st.dups,
                      total_found |-> Len(all_leads),
                      duplicates_removed |->
                          Len(all_leads) - Len(deduplicated_leads),
                      successfully_inserted |-> st.ins,
                      status |-> "completed"]
          /\ leads' = st.rows
          /\ nextId' = st.next
          /\ logCount' = IF deduplicated_leads = <<>> THEN logCount
                         ELSE logCount + 1
          /\ lastOp' = [op |-> "insert", logPre |-> logCount,
                        batch |-> deduplicated_leads, pre |-> leads,
                        total |-> Len(deduplicated_leads), dups |-> st.dups,
                        ins |-> st.ins, dec |-> st.dec]
    /\ UNCHANGED <<hasIdx, conn, writer, started, lastSearch, orchVars,
                   runVars, files>>

NextPipe ==
    \E all_leads \in PipeBatches : \E deduplicate \in BOOLEAN :
        StoreSurvivors(all_leads, deduplicate)

SpecPipe == Init /\ [][NextPipe]_vars

(***************************************************************************)
(* Source resolution and dispatch on their own.                            *)
(***************************************************************************)
SourceNames ==
    {"Yelp", " YELP ", "google", "Google Maps", "yellowpages", "test",
     "linkedin", "bing"}

NameLists == UNION { [1..n -> SourceNames] : n \in 0..MaxNames }

\* the futures submitted: one per source that is a key of self.scrapers
DispatchTasks(sources) == SelectSeq(sources, LAMBDA s : InSeq(s, Scrapers))

\* the head of generate_leads, up to the submission of the connector tasks
ResolveCall(request) ==
    /\ call.op = "none"
    /\ call' = [op |-> "resolve", request |-> request,
                sources |-> ResolveSources(request),
                tasks |-> DispatchTasks(ResolveSources(request))]
    /\ UNCHANGED <<storeVars, lastSearch, orchVars, runVars, files>>

NextResolve ==
    \/ ResolveCall(NoRequest)
    \/ \E names \in NameLists : ResolveCall(Request(names))

SpecResolve == Init /\ [][NextResolve]_vars

(***************************************************************************)
(* generate_leads calls made by concurrent callers on one orchestrator.     *)
(* Nothing in generate_leads reads is_running, and self.results is shared.  *)
(***************************************************************************)
RunRequests ==
    { Request(<<"Yelp">>), Request(<<"google">>), Request(<<"Yelp", "google">>) }

RunPages ==
    { ErrorPage,
      [fetch |-> "ok", first |-> <<Lead("Acme", "1 Main St", "", "555-1000")>>,
       nextFetch |-> "none", more |-> <<>>] }

\* self.results[source] = result on a dict: a new key goes last, a key that
\* is present keeps its place
PutResult(entries, entry) ==
    IF \E i \in 1..Len(entries) : entries[i].source = entry.source
    THEN [i \in 1..Len(entries) |->
             IF entries[i].source = entry.source THEN entry ELSE entries[i]]
    ELSE Append(entries, entry)

\* all_leads, from the entries of self.results
RECURSIVE CombineEntries(_)
CombineEntries(entries) ==
    IF entries = <<>> THEN <<>>
    ELSE (IF Head(entries).status = "success" THEN Head(entries).leads ELSE <<>>)
             \o CombineEntries(Tail(entries))

\* the head of generate_leads: sources, is_running, self.results = {}, and
\* one task submitted per source
RunBegin(c, request, limit, deduplicate) ==
    /\ caller[c].pc = "idle"
    /\ is_running' = TRUE
    /\ self_results' = <<>>
    /\ caller' = [caller EXCEPT ![c] =
          [pc |-> "collect", sources |-> ResolveSources(request),
           limit_per_source |-> LimitPerSource(limit, ResolveSources(request)),
           deduplicate |-> deduplicate,
           pending |-> { ResolveSources(request)[i] :
                            i \in 1..Len(ResolveSources(request)) }]]
    /\ UNCHANGED <<storeVars, lastSearch, orchVars, call, files>>

\* as_completed yields the future of source s: its result goes to self.results
RunCollect(c, s, page) ==
    /\ caller[c].pc = "collect"
    /\ s \in caller[c].pending
    /\ self_results' = PutResult(self_results,
          ResultEntry(s, c, RunScraper(s, page, caller[c].limit_per_source)))
    /\ caller' = [caller EXCEPT ![c].pending = @ \ {s}]
    /\ UNCHANGED <<storeVars, lastSearch, orchVars, call, is_running, files>>

\* the tail of generate_leads: merge self.results, deduplicate, store, report
RunReport(c, storeFails) ==
    /\ caller[c].pc = "collect"
    /\ caller[c].pending = {}
    /\ LET all_leads == CombineEntries(self_results)
           deduplicated_leads == IF caller[c].deduplicate
                                 THEN DeduplicateLeads(all_leads) ELSE all_leads
           st     == InsertRun(hasIdx, leads, nextId, deduplicated_leads)
           stored == dbOpen /\ deduplicated_leads # <<>> /\ ~storeFails
       IN
       /\ storeFails => dbOpen /\ deduplicated_leads # <<>>
       /\ caller' = [caller EXCEPT ![c] =
             [pc |-> "done", sources |-> caller[c].sources,
              report |->
                 IF storeFails
                 THEN [status |-> "error", total_found |-> 0,
                       successfully_inserted |-> 0,
                       per_source |-> <<>>, errors |-> {}]
                 ELSE [status |-> "completed", total_found |-> Len(all_leads),
                       successfully_inserted |-> IF stored THEN st.ins ELSE 0,
                       per_source |-> [i \in 1..Len(self_results) |->
                           [source |-> self_results[i].source,
                            run |-> self_results[i].run,
                            count |-> Len(self_results[i].leads)]],
                       errors |-> { self_results[i].source :
                           i \in { j \in 1..Len(self_results) :
                                     self_results[j].error # "" } }]]]
       /\ IF stored
          THEN /\ leads' = st.rows
               /\ nextId' = st.next
               /\ logCount' = logCount + 1
               /\ lastOp' = [op |-> "insert", logPre |-> logCount,
                             batch |-> deduplicated_leads,
                             pre |-> leads, total |-> Len(deduplicated_leads),
                             dups |-> st.dups, ins |-> st.ins, dec |-> st.dec]
          ELSE UNCHANGED <<leads, nextId, logCount, lastOp>>
    /\ is_running' = FALSE
    /\ UNCHANGED <<hasIdx, conn, writer, started, lastSearch, orchVars, call,
                   self_results, files>>

NextRun ==
    \/ \E c \in Callers : \E request \in RunRequests : \E limit \in OrchLimits :
       \E deduplicate \in BOOLEAN : RunBegin(c, request, limit, deduplicate)
    \/ \E c \in Callers : \E s \in {"yelp", "google_maps"} : \E page \in RunPages :
          RunCollect(c, s, page)
    \/ \E c \in Callers : \E storeFails \in BOOLEAN : RunReport(c, storeFails)

SpecRun == InitOrch /\ [][NextRun]_vars

(***************************************************************************)
(* One generate_leads call and stop_generation calls made from other        *)
(* threads while it runs. The thread of generate_leads keeps running: every *)
(* connector task returns or raises, so as_completed yields every future    *)
(* and the tail of the call is reached.                                     *)
(***************************************************************************)
\* stop_generation: clears the flag; nothing reads it
StopGeneration ==
    /\ is_running' = FALSE
    /\ UNCHANGED <<storeVars, lastSearch, orchVars, call, self_results, caller,
                   files>>

RunCollectStep == \E s \in {"yelp", "google_maps"} : \E page \in RunPages :
                      RunCollect(1, s, page)

RunReportStep == \E storeFails \in BOOLEAN : RunReport(1, storeFails)

NextStop ==
    \/ \E request \in RunRequests : \E limit \in OrchLimits :
       \E deduplicate \in BOOLEAN : RunBegin(1, request, limit, deduplicate)
    \/ RunCollectStep
    \/ RunReportStep
    \/ StopGeneration

SpecStop ==
    /\ InitOrch
    /\ [][NextStop]_vars
    /\ WF_vars(RunCollectStep)
    /\ WF_vars(RunReportStep)

(***************************************************************************)
(* cleanup_duplicates on a store without the unique indexes that concurrent *)
(* one-candidate insert_leads calls filled: each call ran its duplicate     *)
(* check before any of them committed, so every candidate was inserted, in  *)
(* the order of the INSERTs.                                               *)
(***************************************************************************)
RacedCandidates ==
    { Lead("Acme",   "1 Main St", "",        ""),
      Lead(" acme ", "1 MAIN ST", "x@a.com", "555-1000"),
      Lead("Core",   "2 Oak Ave", "x@a.com", "555-1000"),
      Lead("Bolt",   "2 Oak Ave", "",        "") }

RacedInserts == UNION { [1..n -> RacedCandidates] : n \in 0..MaxRows }

RowsOf(inserted) == { Row(i, Hashes(inserted[i])) : i \in 1..Len(inserted) }

InitRaced ==
    /\ hasIdx = FALSE
    /\ \E inserted \in RacedInserts :
          /\ leads = RowsOf(inserted)
          /\ nextId = Len(inserted) + 1
          /\ logCount = Len(inserted)
    /\ lastOp = [op |-> "none"]
    /\ conn = [p \in Conns |-> IdleConn]
    /\ writer = 0
    /\ started = 0
    /\ lastSearch = [op |-> "none"]
    /\ dbOpen = TRUE
    /\ runs = 0
    /\ report = [status |-> "none"]
    /\ call = [op |-> "none"]
    /\ is_running = FALSE
    /\ self_results = <<>>
    /\ caller = [c \in Callers |-> IdleCaller]
    /\ files = {}

\* LeadDatabase.cleanup_duplicates on such a store
RacedCleanupDuplicates == CleanupCall(MaxRows + MaxLog)

NextRaced == RacedCleanupDuplicates

SpecRaced == InitRaced /\ [][NextRaced]_vars

(***************************************************************************)
(* get_leads and export_to_csv. Every lead of the model is stored with the  *)
(* city, country and niche of the request.                                  *)
(***************************************************************************)
\* column LIKE '%' || part || '%' on the strings the model uses (LIKE ignores
\* the case of ASCII letters)
LikePairs ==
    { <<"Springfield", "spring">>, <<"Springfield", "Springfield">>,
      <<"USA", "usa">>, <<"bakery", "BAK">> }

LikeContains(text, part) == <<text, part>> \in LikePairs

\* filters: None, {} and '' values add no condition
NoFilters == [city |-> "", country |-> "", niche |-> ""]

ExportFilters ==
    { NoFilters,
      [city |-> "spring",      country |-> "",    niche |-> ""],
      [city |-> "Shelbyville", country |-> "",    niche |-> ""],
      [city |-> "",            country |-> "usa", niche |-> "BAK"],
      [city |-> "spring",      country |-> "",    niche |-> "plumber"] }

\* the filename argument: None ("") or a name
ExportFileNames == {"", "out.csv"}

\* f"leads_export_{timestamp}.csv"
GeneratedFileName == "leads_export_" \o "20240101_000000" \o ".csv"

\* get_leads whose WHERE clause ignores the filters
GetLeadsUnfiltered(rows, filters) == rows

\* get_leads: the rows that pass every condition the filters add
GetLeads(rows, filters) ==
    { r \in rows :
        /\ filters.city # "" => LikeContains(ReqCity, filters.city)
        /\ filters.country # "" => LikeContains(ReqCountry, filters.country)
        /\ filters.niche # "" => LikeContains(ReqNiche, filters.niche) }

\* export_to_csv: ValueError when nothing matches, else the file is written
\* and its name returned
ExportToCsv(filters, filename) ==
    LET found == GetLeads(leads, filters)
        name  == IF filename = "" THEN GeneratedFileName ELSE filename
    IN /\ IF found = {}
          THEN /\ call' = [op |-> "export", filters |-> filters,
                           raised |-> TRUE, path |-> "", exported |-> 0,
                           rows |-> leads, filesPre |-> files,
                           filesPost |-> files]
               /\ files' = files
          ELSE /\ call' = [op |-> "export", filters |-> filters,
                           raised |-> FALSE, path |-> name,
                           exported |-> Cardinality(found),
                           rows |-> leads, filesPre |-> files,
                           filesPost |-> files \cup {name}]
               /\ files' = files \cup {name}
       /\ UNCHANGED <<storeVars, lastSearch, orchVars, runVars>>

ExportBatches == { <<c>> : c \in Candidates }

NextExport ==
    \/ \E batch \in ExportBatches : InsertLeads(batch)
    \/ \E filters \in ExportFilters : \E filename \in ExportFileNames :
          ExportToCsv(filters, filename)

SpecExport == Init /\ [][NextExport]_vars

(***************************************************************************)
(* BaseScraper._make_request under its retry decorator.                    *)
(***************************************************************************)
\* stop=stop_after_attempt(3)
StopAfterAttempt == 3

\* what one session.get / raise_for_status attempt can do: return a response,
\* raise a requests.exceptions.RequestException (Timeout, ConnectionError,
\* HTTPError), or raise anything else
AttemptOutcomes == {"ok", "Timeout", "ConnectionError", "HTTPError", "OtherError"}

\* retry=retry_if_exception_type((RequestException, Timeout))
RetryIfExceptionType(outcome) == outcome \in {"Timeout", "ConnectionError", "HTTPError"}

\* what each attempt would do, were it made
OutcomeSeqs == [1..(StopAfterAttempt + 1) -> AttemptOutcomes]

\* the attempts of a decorator that has no stop condition
AttemptsMadeNoStop(outcomes) ==
    LET ends == { n \in 1..Len(outcomes) : ~RetryIfExceptionType(outcomes[n]) }
    IN IF ends = {} THEN Len(outcomes)
       ELSE CHOOSE n \in ends : \A m \in ends : n <= m

\* the attempts tenacity makes: up to the first one that returns or raises an
\* exception that is not retried, and at most StopAfterAttempt
AttemptsMade(outcomes) ==
    LET ends == { n \in 1..StopAfterAttempt : ~RetryIfExceptionType(outcomes[n]) }
    IN IF ends = {} THEN StopAfterAttempt
       ELSE CHOOSE n \in ends : \A m \in ends : n <= m

\* how the call ends: the response, tenacity.RetryError after the last retried
\* failure, or the exception that is not retried
MakeRequestResult(outcomes) ==
    LET last == outcomes[AttemptsMade(outcomes)] IN
    IF last = "ok" THEN "ok"
    ELSE IF RetryIfExceptionType(last) THEN "RetryError"
    ELSE last

\* one _make_request call made by YelpScraper.search_leads for its first page
MakeRequest(outcomes) ==
    /\ call.op = "none"
    /\ call' = [op |-> "request", outcomes |-> outcomes,
                attempts |-> AttemptsMade(outcomes),
                result |-> MakeRequestResult(outcomes),
                search |-> YelpSearchLeads(
                    [fetch |-> IF MakeRequestResult(outcomes) = "ok"
                               THEN "ok" ELSE "error",
                     first |-> <<Lead("Acme", "1 Main St", "", "555-1000")>>,
                     nextFetch |-> "none", more |-> <<>>], 1)]
    /\ UNCHANGED <<storeVars, lastSearch, orchVars, runVars, files>>

NextRequest == \E outcomes \in OutcomeSeqs : MakeRequest(outcomes)

SpecRequest == Init /\ [][NextRequest]_vars

(***************************************************************************)
(* Properties of the store.                                                *)
(***************************************************************************)
SameNameAddress(r, q) ==
    r.name_hash = q.name_hash /\ r.address_hash = q.address_hash

SameEmailPhone(r, q) ==
    /\ r.email_hash # "" /\ r.phone_hash # ""
    /\ r.email_hash = q.email_hash /\ r.phone_hash = q.phone_hash

Contactless(c) == c.email = "" /\ c.phone = ""

\* C1: after any sequence of insert_leads and cleanup_duplicates calls on a
\* store that started empty, no two rows share (name_hash, address_hash) and
\* no two rows share a non-empty (email_hash, phone_hash).
C1_NoSharedIdentity ==
    \A r \in leads : \A q \in leads :
        r.id # q.id => ~SameNameAddress(r, q) /\ ~SameEmailPhone(r, q)

\* a duplicate was offered to a store of at least two rows and rejected
C1_Witness ==
    /\ lastOp.op = "insert"
    /\ lastOp.dups >= 1
    /\ Cardinality(leads) >= 2

\* C2: a candidate with no email and no phone whose name + address matches no
\* stored row and no earlier candidate of the batch is inserted, never counted
\* as a duplicate (as stated by the claim; the code violates it).
C2_ContactlessNeverDuplicate ==
    lastOp.op = "insert" =>
        \A j \in 1..Len(lastOp.batch) :
            LET h == Hashes(lastOp.batch[j]) IN
            ( /\ Contactless(lastOp.batch[j])
              /\ \A r \in lastOp.pre : ~SameNameAddress(r, h)
              /\ \A i \in 1..(j - 1) : ~SameNameAddress(Hashes(lastOp.batch[i]), h) )
            => lastOp.dec[j] = "ins"

\* C3: a batch of two candidates with the same normalised name and address,
\* on a store in which no row is a duplicate of either by the store's rule,
\* inserts exactly one and counts the other as a duplicate (as stated by the
\* claim; the code violates it).
C3_SameIdentityOneInserted ==
    ( /\ lastOp.op = "insert"
      /\ Len(lastOp.batch) = 2
      /\ SameNameAddress(Hashes(lastOp.batch[1]), Hashes(lastOp.batch[2]))
      /\ \A k \in 1..2 : ~CheckDuplicate(lastOp.pre, Hashes(lastOp.batch[k])) )
    => lastOp.ins = 1 /\ lastOp.dups = 1

SameEmail(r, q) ==
    r.email_hash # "" /\ r.email_hash = q.email_hash

\* C4: once two concurrent insert_leads calls have both finished, at most one
\* row is stored per identity: name + address, non-empty email + phone, or
\* non-empty email alone (as stated by the claim, on the store that has its
\* unique indexes; the code violates it for the email-alone identity).
C4_NoConcurrentDoubleInsert ==
    (hasIdx /\ AllIdle) =>
        \A r \in leads : \A q \in leads :
            r.id # q.id =>
                ~SameNameAddress(r, q) /\ ~SameEmailPhone(r, q) /\ ~SameEmail(r, q)

\* C5: in a generate_leads run where at least one selected connector fails
\* and every other one returns candidates, the report has status 'completed',
\* its errors map names every failing source, and successfully_inserted is
\* non-zero when the store was empty (the store being open and not failing).
C5_PartialFailureIsolation ==
    ( /\ report.status # "none"
      /\ report.dbOpen /\ ~report.storeFails
      /\ report.failed # {}
      /\ \E s \in DOMAIN report.sources : report.sources[s] \notin report.failed
      /\ \A s \in DOMAIN report.sources :
            report.sources[s] \notin report.failed => report.sources[s] \in report.gave )
    => /\ report.status = "completed"
       /\ report.failed \subseteq report.errors
       /\ report.pre = {} => report.successfully_inserted # 0

\* the rows the store holds after the run of report r, had its connectors
\* completed in the given order
StoredAfter(r, order) ==
    LET lps     == LimitPerSource(r.limit, r.sources)
        results == [s \in DOMAIN r.pages |-> RunScraper(s, r.pages[s], lps)]
        all     == CombineResults(order, results)
        kept    == IF r.deduplicate THEN DeduplicateLeads(all) ELSE all
    IN IF kept = <<>> THEN r.pre
       ELSE InsertRun(hasIdx, r.pre, 1 + Cardinality(r.pre), kept).rows

NameAddressOf(rows) == { <<q.name_hash, q.address_hash>> : q \in rows }

\* C11: for fixed per-connector results, the stored content after batch
\* deduplication and insert_leads (the number of stored leads and the set of
\* stored identities) is the same for every order in which the connectors
\* complete.
C11_OrderIndependentContent ==
    ( /\ report.status = "completed"
      /\ report.dbOpen /\ report.deduplicate )
    => \A order \in CompletionOrders(report.sources) :
          /\ Cardinality(StoredAfter(report, order)) = Cardinality(report.post)
          /\ NameAddressOf(StoredAfter(report, order)) = NameAddressOf(report.post)

\* C6: a cleanup_duplicates call that directly follows another one, with no
\* insert committed in between, removes no row and leaves the table as it was.
C6_CleanupIdempotent ==
    (lastOp.op = "cleanup" /\ lastOp.after = "cleanup") =>
        (lastOp.removed = 0 /\ leads = lastOp.pre)

\* the second of two successive cleanups, the first of which removed rows
C6_Witness ==
    /\ lastOp.op = "cleanup"
    /\ lastOp.after = "cleanup"
    /\ lastOp.prevRemoved >= 1

(***************************************************************************)
(* Properties of the connectors.                                           *)
(***************************************************************************)
\* C12: every insert_leads call, for a batch of any length, appends exactly
\* one deduplication_log entry (of type 'insert_with_dedup').
C12_EveryInsertLogged ==
    lastOp.op = "insert" => logCount = lastOp.logPre + 1

KnownOf(request) ==
    { k \in {"google_maps", "yelp", "yellowpages", "test"} :
        \E i \in 1..Len(request.names) :
            \/ request.names[i] = k
            \/ k = "yelp" /\ request.names[i] \in {"Yelp", " YELP "}
            \/ k = "google_maps" /\ request.names[i] \in {"google", "Google Maps"} }

NoRepeats(seq) == \A i \in 1..Len(seq) : \A j \in 1..Len(seq) : i # j => seq[i] # seq[j]

\* C14: requested names that map to no known connector are dropped and
\* repeated names are used once; when no requested name resolves the run uses
\* the full default connector set; exactly one connector task is dispatched
\* per resolved source.
C14_SourceResolution ==
    call.op = "resolve" =>
        /\ NoRepeats(call.sources)
        /\ { call.sources[i] : i \in 1..Len(call.sources) } =
              IF KnownOf(call.request) # {} THEN KnownOf(call.request)
              ELSE {"google_maps", "yelp", "yellowpages", "test"}
        /\ NoRepeats(call.tasks)
        /\ { call.tasks[i] : i \in 1..Len(call.tasks) } =
              { call.sources[i] : i \in 1..Len(call.sources) }

\* an unsupported name is dropped and a name given twice is used once
C14_Witness ==
    /\ call.op = "resolve"
    /\ call.request = Request(<<"linkedin", "Yelp", " YELP ">>)
    /\ call.sources = <<"yelp">>
    /\ call.tasks = <<"yelp">>

\* C15: limit is the maximum number of leads a run generates: total_found
\* never exceeds the requested limit.
C15_TotalWithinLimit ==
    report.status = "completed" => report.total_found <= report.limit

\* C16: only one run is in flight per orchestrator: a generate_leads call
\* made while another one is running does not run concurrently with it, so
\* the report of a run never holds per-source results or errors produced by
\* another run.
C16_NoForeignResult ==
    \A c \in Callers :
        caller[c].pc = "done" =>
            \A i \in 1..Len(caller[c].report.per_source) :
                caller[c].report.per_source[i].run = c

\* a stored row (or an earlier candidate) r matches the candidate hashes h by
\* the stated rule
RuleMatch(r, h) ==
    \/ r.name_hash = h.name_hash /\ r.address_hash = h.address_hash
    \/ /\ h.email_hash # "" /\ h.phone_hash # ""
       /\ r.email_hash = h.email_hash /\ r.phone_hash = h.phone_hash
    \/ h.email_hash # "" /\ r.email_hash = h.email_hash

\* C17: insert_leads decides each candidate, in batch order, by this rule
\* exactly: it is a duplicate and skipped if a stored row, or a row inserted
\* earlier in the batch, matches its (name_hash, address_hash), its
\* (email_hash, phone_hash) when both are non-empty, or its non-empty
\* email_hash; in every other case it is inserted.
C17_DecisionRuleExact ==
    lastOp.op = "insert" =>
        \A j \in 1..Len(lastOp.batch) :
            LET h == Hashes(lastOp.batch[j]) IN
            (lastOp.dec[j] = "ins") <=>
                ~( \/ \E r \in lastOp.pre : RuleMatch(r, h)
                   \/ \E i \in 1..(j - 1) :
                         /\ lastOp.dec[i] = "ins"
                         /\ RuleMatch(Hashes(lastOp.batch[i]), h) )

\* the rows of a set that share the name + address, or the email + phone, of r
NameAddressGroupOf(rows, r) == { q \in rows : SameNameAddress(q, r) }
EmailPhoneGroupOf(rows, r) == { q \in rows : SameEmailPhone(r, q) }

LowestId(group) == CHOOSE r \in group : \A q \in group : r.id <= q.id

\* C18 (amended): cleanup_duplicates leaves at most one row in every duplicate
\* group; it deletes a row only if a row with a lower id shared its name and
\* address or its non-empty email and phone; and a group none of whose rows
\* belongs to another duplicate group keeps exactly its lowest-id row.
C18_CleanupKeepsLowestOfSeparateGroups ==
    lastOp.op = "cleanup" =>
        /\ \A r \in lastOp.pre \ leads :
              \E q \in lastOp.pre :
                  q.id < r.id /\ (SameNameAddress(q, r) \/ SameEmailPhone(q, r))
        /\ \A r \in lastOp.pre :
              /\ Cardinality(NameAddressGroupOf(lastOp.pre, r) \cap leads) <= 1
              /\ Cardinality(EmailPhoneGroupOf(lastOp.pre, r) \cap leads) <= 1
        /\ \A r \in lastOp.pre :
              LET na == NameAddressGroupOf(lastOp.pre, r)
                  ep == EmailPhoneGroupOf(lastOp.pre, r)
              IN /\ ( /\ Cardinality(na) > 1
                      /\ \A q \in na : EmailPhoneGroupOf(lastOp.pre, q) \subseteq na )
                    => na \cap leads = { LowestId(na) }
                 /\ ( /\ Cardinality(ep) > 1
                      /\ \A q \in ep : NameAddressGroupOf(lastOp.pre, q) \subseteq ep )
                    => ep \cap leads = { LowestId(ep) }

\* two rows that share only their email and phone, in no other group: the
\* one with the lower id is kept, the other is deleted
C18_Witness ==
    /\ lastOp.op = "cleanup"
    /\ lastOp.removed = 1
    /\ \E r \in lastOp.pre : \E q \in lastOp.pre :
          /\ r.id < q.id
          /\ EmailPhoneGroupOf(lastOp.pre, r) = {r, q}
          /\ NameAddressGroupOf(lastOp.pre, r) = {r}
          /\ NameAddressGroupOf(lastOp.pre, q) = {q}
          /\ r \in leads /\ q \notin leads

\* C18 (as stated): in every duplicate group the store held (rows sharing name_hash and
\* address_hash, or a non-empty email_hash and phone_hash), cleanup_duplicates
\* leaves exactly one row, the one with the lowest id among the group's rows
\* before the call, and deletes the others.
C18_CleanupKeepsLowestId ==
    lastOp.op = "cleanup" =>
        \A r \in lastOp.pre :
            /\ Cardinality(NameAddressGroupOf(lastOp.pre, r)) > 1 =>
                  NameAddressGroupOf(lastOp.pre, r) \cap leads =
                      { LowestId(NameAddressGroupOf(lastOp.pre, r)) }
            /\ Cardinality(EmailPhoneGroupOf(lastOp.pre, r)) > 1 =>
                  EmailPhoneGroupOf(lastOp.pre, r) \cap leads =
                      { LowestId(EmailPhoneGroupOf(lastOp.pre, r)) }

\* C20: export_to_csv fails with an error when no stored lead matches the
\* filters (an empty store included) and then writes no file; when at least
\* one lead matches it returns the path of the file.
C20_ExportEmptyFails ==
    call.op = "export" =>
        LET nomatch == \/ call.rows = {}
                       \/ call.filters.city = "Shelbyville"
                       \/ call.filters.niche = "plumber"
        IN /\ nomatch => call.raised /\ call.filesPost = call.filesPre
           /\ ~nomatch => /\ ~call.raised
                          /\ call.path # ""
                          /\ call.path \in call.filesPost
                          /\ call.exported = Cardinality(call.rows)

\* a store that holds leads, and a city filter none of them passes: the
\* export failed and no file exists
C20_Witness ==
    /\ call.op = "export"
    /\ call.rows # {}
    /\ call.filters.city = "Shelbyville"
    /\ call.raised
    /\ call.filesPost = {}
    /\ files = {}

\* C19: one _make_request call makes at most 3 fetch attempts; a further
\* attempt is made only after a RequestException (network, timeout) failure
\* of the previous one; any other error ends the call at its first occurrence;
\* after the third failed attempt the call ends in failure, and the enclosing
\* search_leads returns.
C19_RetryPolicy ==
    call.op = "request" =>
        /\ call.attempts \in 1..3
        /\ \A n \in 2..call.attempts :
              call.outcomes[n - 1] \in {"Timeout", "ConnectionError", "HTTPError"}
        /\ \A n \in 1..call.attempts :
              call.outcomes[n] \in {"ok", "OtherError"} => n = call.attempts
        /\ call.outcomes[call.attempts] = "OtherError" => call.result = "OtherError"
        /\ ( /\ call.attempts < 3
             /\ call.outcomes[call.attempts] # "OtherError" ) => call.result = "ok"
        /\ (call.result = "ok") <=> (call.outcomes[call.attempts] = "ok")
        /\ ~call.search.raised
        /\ call.result # "ok" => call.search.leads = <<>>

\* three network failures in a row: the call fails after the third attempt
\* although a fourth one would have succeeded
C19_Witness ==
    /\ call.op = "request"
    /\ call.outcomes = [n \in 1..4 |->
                           IF n = 1 THEN "Timeout" ELSE IF n = 2 THEN "HTTPError"
                           ELSE IF n = 3 THEN "ConnectionError" ELSE "ok"]
    /\ call.attempts = 3
    /\ call.result = "RetryError"

\* C7: generate_leads with limit 10 and sources ['test'] on an empty store
\* finds the 5 candidates 'Test Business 1'..'Test Business 5' and persists 5;
\* the same request run a second time persists 0 and the store holds 5 leads.
C7_TestConnectorEndToEnd ==
    ( /\ report.status # "none"
      /\ report.request = Request(<<"test">>) /\ report.limit = 10
      /\ report.dbOpen /\ ~report.storeFails )
    => /\ report.pre = {} =>
            /\ report.total_found = 5
            /\ \A i \in 1..5 : report.all[i].name = TestLead(i).name
            /\ report.successfully_inserted = 5
       /\ ( /\ report.prev.status = "completed"
            /\ report.prev.request = report.request /\ report.prev.limit = 10
            /\ report.prev.pre = {} ) =>
            /\ report.successfully_inserted = 0
            /\ Cardinality(report.post) = 5

\* C8: when the store is unavailable (self.db is None, or insert_leads raises
\* during the run) the report has status 'error', an error message and zero
\* total_found, duplicates_removed and successfully_inserted; no run whose
\* survivors were not persisted reports 'completed'.
C8_StoreUnavailableIsError ==
    ( /\ report.status # "none"
      /\ ~report.dbOpen \/ report.storeFails )
    => /\ report.status = "error"
       /\ report.error # ""
       /\ report.total_found = 0
       /\ report.duplicates_removed = 0
       /\ report.successfully_inserted = 0

\* C9: a connector's search_leads returns to its caller and never raises,
\* whatever the fetch and the parsing do (as stated by the claim; the code
\* violates it).
C9_SearchNeverRaises ==
    lastSearch.op = "search" => ~lastSearch.raised

\* C10: search_leads returns at most limit candidates, however many listings
\* the first page and the additional page yield.
C10_LimitRespected ==
    lastSearch.op = "search" => Len(lastSearch.leads) <= lastSearch.limit

\* a source that yields more valid listings than the limit, cut to the limit
C10_Witness ==
    /\ lastSearch.op = "search"
    /\ lastSearch.connector = "yelp"
    /\ Len(ExtractListings("yelp", lastSearch.page.first)) > lastSearch.limit
    /\ Len(lastSearch.leads) = lastSearch.limit

RECURSIVE KeptUpTo(_, _)
KeptUpTo(ls, n) ==
    IF n = 0 THEN {}
    ELSE LET K == KeptUpTo(ls, n - 1) IN
         IF \A j \in K : Identifiers(ls[j]) \cap Identifiers(ls[n]) = {}
         THEN K \cup {n} ELSE K

\* the subsequence of ls[1..n] at the positions K
RECURSIVE Restrict(_, _, _)
Restrict(ls, K, n) ==
    IF n = 0 THEN <<>>
    ELSE Restrict(ls, K, n - 1) \o (IF n \in K THEN <<ls[n]>> ELSE <<>>)

\* C22: _deduplicate_leads returns the subsequence of its input, in input
\* order, of the candidates none of whose identifiers was derived from an
\* earlier kept candidate; the seen-set holds all identifiers of the kept
\* candidates and no identifier that only a rejected candidate has.
C22_FirstWins ==
    call.op = "dedup" =>
        LET K == KeptUpTo(call.input, Len(call.input)) IN
        /\ call.output = Restrict(call.input, K, Len(call.input))
        /\ call.seen = UNION { Identifiers(call.input[j]) : j \in K }

\* the second candidate is rejected for the phone number of the first; the
\* third shares name and address with the rejected one only, and is kept
C22_Witness ==
    /\ call.op = "dedup"
    /\ call.input = << Lead("Bolt", "2 Oak Ave", "", "555-1000 "),
                       Lead("Acme", "1 Main St", "", "555-1000"),
                       Lead("Acme", "1 Main St", "", "555-2000") >>
    /\ call.output = << Lead("Bolt", "2 Oak Ave", "", "555-1000 "),
                        Lead("Acme", "1 Main St", "", "555-2000") >>
    /\ "acme|1 main st" \in call.seen

\* the statuses the claim calls terminal
TerminalStatuses == {"completed", "partial", "error"}

\* a generate_leads call that has started ends with a report of a terminal
\* status
C23_RunReturns ==
    (caller[1].pc = "collect")
        ~> (caller[1].pc = "done" /\ caller[1].report.status \in TerminalStatuses)

\* is_running is true as long as the call has not returned
C23_RunningUntilReturn == [](caller[1].pc = "collect" => is_running)

\* is_running is false once the call has returned
C23_IdleAfterReturn == [](caller[1].pc = "done" => ~is_running)

\* C23: every generate_leads call whose connector calls return or raise ends
\* with a report whose status is completed, partial or error; is_running is
\* true from the start of the run until it returns, and false after it
\* returned, on every path (as stated by the claim; the code violates the
\* part about the time until the return).
C23_RunStateMachine ==
    /\ C23_RunReturns
    /\ C23_RunningUntilReturn
    /\ C23_IdleAfterReturn

\* the row stored for candidate c, if any
StoredFor(rows, c) ==
    { r \in rows : /\ r.name_hash = Hashes(c).name_hash
                   /\ r.address_hash = Hashes(c).address_hash
                   /\ r.email_hash = Hashes(c).email_hash
                   /\ r.phone_hash = Hashes(c).phone_hash }

\* C24: an INSERT of insert_leads that violates a unique index does not make
\* the call raise: the candidate is counted in duplicates_found, the rest of
\* the batch is decided as well, and the rows the call inserted are
\* in the store when it has returned.
C24_IntegrityErrorCounted ==
    ( /\ lastOp.op = "insert"
      /\ \E i \in 1..Len(lastOp.dec) : lastOp.dec[i] = "integrity" )
    => /\ Len(lastOp.dec) = Len(lastOp.batch)
       /\ lastOp.dups =
              Cardinality({ i \in 1..Len(lastOp.dec) :
                              lastOp.dec[i] \in {"dup", "integrity"} })
       /\ \A i \in 1..Len(lastOp.dec) :
              lastOp.dec[i] = "ins" =>
                  StoredFor(leads \ lastOp.pre, lastOp.batch[i]) # {}
       /\ logCount = lastOp.logPre + 1

\* a batch whose first INSERT violates a unique index and whose second
\* candidate is then inserted and committed
C24_Witness ==
    /\ lastOp.op = "insert"
    /\ lastOp.dec = <<"integrity", "ins">>
    /\ lastOp.dups = 1
    /\ lastOp.ins = 1
    /\ Cardinality(leads) = Cardinality(lastOp.pre) + 1

\* C25: empty hashes never make two candidates duplicates of each other: a
\* candidate with empty name, empty address and a non-empty email that no
\* stored row and no earlier candidate of the batch has is inserted (as stated
\* by the claim; the code violates it).
C25_EmptyHashesNeverMatch ==
    lastOp.op = "insert" =>
        \A i \in 1..Len(lastOp.dec) :
            ( /\ lastOp.batch[i].name = ""
              /\ lastOp.batch[i].address = ""
              /\ lastOp.batch[i].email # ""
              /\ \A r \in lastOp.pre :
                     r.email_hash # Hashes(lastOp.batch[i]).email_hash
              /\ \A j \in 1..(i - 1) :
                     Hashes(lastOp.batch[j]).email_hash
                         # Hashes(lastOp.batch[i]).email_hash )
            => lastOp.dec[i] = "ins"

\* C26: every insert_leads call that returns has counted every candidate of
\* its batch: total_processed = duplicates_found + successfully_inserted (as
\* stated by the claim; the code violates it).
C26_EveryCandidateCounted ==
    lastOp.op = "insert" => lastOp.total = lastOp.dups + lastOp.ins

\* C27: every row cleanup_duplicates deletes shares its name and address, or
\* its non-empty email and phone, with a row that is in the store when the
\* call has returned (as stated by the claim; the code violates it).
C27_DeletedRowHasSurvivor ==
    lastOp.op = "cleanup" =>
        \A r \in lastOp.pre \ leads :
            \E q \in leads : SameNameAddress(q, r) \/ SameEmailPhone(q, r)

\* C28: when insert_leads raises, the leads table and the deduplication_log
\* are exactly as before the call: no row of the partly processed batch and
\* no log row is left behind.
C28_RaiseIsAtomic ==
    lastOp.op = "insert_raised" =>
        /\ leads = lastOp.pre
        /\ logCount = lastOp.logPre

\* a call on a non-empty store that had inserted a row of its batch when the
\* commit failed
C28_Witness ==
    /\ lastOp.op = "insert_raised"
    /\ lastOp.at = "commit"
    /\ lastOp.pending > 0
    /\ lastOp.pre # {}
    /\ leads = lastOp.pre

\* C29: after any sequence of sequential insert_leads calls on a store that
\* was empty at first, no two stored rows have the same non-empty email_hash.
C29_EmailStoredOnce ==
    \A r \in leads : \A q \in leads :
        (r.id # q.id /\ r.email_hash # "") => r.email_hash # q.email_hash

\* a candidate whose email is stored under another name, address and phone
\* is rejected by the duplicate check
C29_Witness ==
    /\ lastOp.op = "insert"
    /\ Len(lastOp.batch) = 2
    /\ lastOp.dec = <<"ins", "dup">>
    /\ Hashes(lastOp.batch[1]).email_hash # ""
    /\ Hashes(lastOp.batch[1]).email_hash = Hashes(lastOp.batch[2]).email_hash
    /\ Hashes(lastOp.batch[1]).phone_hash # Hashes(lastOp.batch[2]).phone_hash
    /\ Hashes(lastOp.batch[1]).name_hash # Hashes(lastOp.batch[2]).name_hash
    /\ Hashes(lastOp.batch[1]).address_hash # Hashes(lastOp.batch[2]).address_hash
    /\ Cardinality({ r \in leads :
                       r.email_hash = Hashes(lastOp.batch[1]).email_hash }) = 1

\* C30: in a run with deduplicate=true on an empty store, every candidate
\* that survives _deduplicate_leads is inserted by insert_leads, so
\* total_found = duplicates_removed + successfully_inserted (as stated by the
\* claim; the code violates it).
C30_SurvivorsAllInserted ==
    ( /\ call.op = "store"
      /\ call.deduplicate
      /\ call.pre = {} )
    => /\ call.duplicates_found = 0
       /\ call.successfully_inserted = Len(call.survivors)
       /\ call.total_found = call.duplicates_removed + call.successfully_inserted

=============================================================================
